---- MODULE Spec2Model ----
(***************************************************************************)
(* A model of the Bon UI rendering pipeline: View lifecycle (View.js),     *)
(* recursive rendering (View.renderToVNode) and the virtual-tree           *)
(* reconciler (Reconciler.updateVNodeDOM) over an explicit heap of VNodes  *)
(* and of live DOM nodes.                                                  *)
(***************************************************************************)
EXTENDS Integers, Sequences, FiniteSets, TLC

VARIABLES
    vnodes,      \* heap of VNode objects, indexed by allocation order
    doms,        \* heap of live DOM nodes, indexed by allocation order
    views,       \* View objects: lastVNode, state snapshot, invalidation mode
    queue,       \* Worker: units of work not yet executed, FIFO
    log,         \* DOM calls made by the last operation
    mountHooks,  \* per View: number of handleMount calls so far
    invalHooks,  \* per View: number of handleInvalidation calls so far
    bodyCalls,   \* per View: number of getBody calls so far
    passes,      \* per View: render+reconcile passes performed so far
    last,        \* the last operation: what it was and how it ended
    calls,       \* number of API calls issued so far (bounded)
    rPrev,       \* reconciler harness: root of the previous tree
    rNext,       \* reconciler harness: root of the next tree
    rPhase,      \* reconciler harness: "off", "ready" or "done"
    rDoms,       \* reconciler harness: number of DOM nodes before the pass
    objects,     \* heap of the style and attribute objects of the Views a and b
    holders,     \* the Views a and b: their styles, attributes, events and key
    font,        \* a Font object
    fontText     \* the words of the last font.toString()

valueVars == << objects, holders, font, fontText >>

vars == << vnodes, doms, views, queue, log, mountHooks, invalHooks, bodyCalls,
           passes, last, calls, rPrev, rNext, rPhase, rDoms, objects, holders,
           font, fontText >>

----------------------------------------------------------------------------
\* Bounds of the model

MaxKids == 3
MaxCalls == 3
MaxQueue == 3
MaxState == 7

----------------------------------------------------------------------------
\* Values

NullKey == 0 - 1

Truthy(k) == k > 0

StyleKeySeq == << "color", "width" >>
AttrNameSeq == << "id", "title" >>
EventNameSeq == << "click", "input" >>

StyleKeys == { StyleKeySeq[i] : i \in DOMAIN StyleKeySeq }
AttrNames == { AttrNameSeq[i] : i \in DOMAIN AttrNameSeq }
EventNames == { EventNameSeq[i] : i \in DOMAIN EventNameSeq }

\* Style and attribute values are objects; two distinct objects may print alike.
Values == { "red1", "red2", "blue" }

ToStringOf(v) == IF v \in { "red1", "red2" } THEN "red" ELSE v

Handlers == { "h1", "h2", "h3" }

Unset == ""
NoAttr == "<none>"

EmptyMap == [ x \in {} |-> "" ]
EmptyEvents == [ x \in {} |-> << >> ]

Views == { "wrapper", "panel", "leaf" }
NoView == ""

\* document.body, the container every tree is mounted under
RootDom == 1

----------------------------------------------------------------------------
\* References held in a body list or returned by getBody

VNodeRef(n) == [ k |-> "vnode", vn |-> n, vw |-> NoView ]
ViewRef(v) == [ k |-> "view", vn |-> 0, vw |-> v ]
NullRef == [ k |-> "null", vn |-> 0, vw |-> NoView ]
BadRef == [ k |-> "bad", vn |-> 0, vw |-> NoView ]

IsVNode(r) == r.k = "vnode"
IsView(r) == r.k = "view"

----------------------------------------------------------------------------
\* The machine state threaded through the synchronous code

Machine == [ vn |-> vnodes, dm |-> doms, vw |-> views, log |-> log,
             mh |-> mountHooks, ih |-> invalHooks, gb |-> bodyCalls,
             ps |-> passes, err |-> FALSE, ret |-> NullRef, rd |-> 0,
             keys |-> << >>, pairs |-> << >>, refs |-> << >>, q |-> queue ]

Raise(M) == [ M EXCEPT !.err = TRUE ]

\* a call cannot be made: an error is already propagating, or the receiver is null
NoCall(M, d) == M.err \/ d = 0

\* the outcome of a call that cannot be made: a TypeError unless one is propagating
Failed(M) == IF M.err THEN M ELSE Raise(M)

Logged(M, op, d, name, val, arg) ==
    [ M EXCEPT !.log = Append(@, [ op |-> op, dom |-> d, name |-> name,
                                    val |-> val, arg |-> arg ]) ]

----------------------------------------------------------------------------
\* The DOM

NewDom(type, tag) ==
    [ type |-> type, tag |-> tag,
      style |-> [ s \in StyleKeys |-> Unset ],
      attrs |-> [ a \in AttrNames |-> NoAttr ],
      listeners |-> [ e \in EventNames |-> << >> ],
      children |-> << >>, parent |-> 0 ]

Without(seq, x) == SelectSeq(seq, LAMBDA y : y # x)

IndexOf(seq, x) ==
    IF \E i \in DOMAIN seq : seq[i] = x
    THEN CHOOSE i \in DOMAIN seq : seq[i] = x /\ \A j \in 1 .. (i - 1) : seq[j] # x
    ELSE 0

InsertAt(seq, i, x) == SubSeq(seq, 1, i - 1) \o << x >> \o SubSeq(seq, i, Len(seq))

\* document.createElement / createTextNode
DomCreate(M, type, tag) ==
    IF M.err THEN M ELSE
    Logged([ M EXCEPT !.dm = Append(@, NewDom(type, tag)) ],
           "create", Len(M.dm) + 1, tag, "", 0)

\* the node leaves its current parent, if any
Detached(dm, c) ==
    IF dm[c].parent = 0 THEN dm
    ELSE [ dm EXCEPT ![dm[c].parent].children = Without(@, c), ![c].parent = 0 ]

\* dom.style[name] = value
DomSetStyle(M, d, name, val) ==
    IF NoCall(M, d) THEN Failed(M) ELSE
    Logged([ M EXCEPT !.dm[d].style[name] = val ], "style", d, name, val, 0)

\* dom.setAttribute(name, value)
DomSetAttribute(M, d, name, val) ==
    IF NoCall(M, d) THEN Failed(M) ELSE
    Logged([ M EXCEPT !.dm[d].attrs[name] = val ], "setAttribute", d, name, val, 0)

\* dom.removeAttribute(name)
DomRemoveAttribute(M, d, name) ==
    IF NoCall(M, d) THEN Failed(M) ELSE
    Logged([ M EXCEPT !.dm[d].attrs[name] = NoAttr ], "removeAttribute", d, name, "", 0)

\* dom.addEventListener(name, handler): a listener already present is not added again
DomAddEventListener(M, d, name, h) ==
    IF NoCall(M, d) THEN Failed(M) ELSE
    Logged([ M EXCEPT !.dm[d].listeners[name] =
                 IF IndexOf(@, h) # 0 THEN @ ELSE Append(@, h) ],
           "addEventListener", d, name, h, 0)

\* dom.removeEventListener(name, handler)
DomRemoveEventListener(M, d, name, h) ==
    IF NoCall(M, d) THEN Failed(M) ELSE
    Logged([ M EXCEPT !.dm[d].listeners[name] = Without(@, h) ],
           "removeEventListener", d, name, h, 0)

\* parent.appendChild(child)
DomAppendChild(M, p, c) ==
    IF NoCall(M, p) THEN Failed(M) ELSE
    LET dm1 == Detached(M.dm, c)
        dm2 == [ dm1 EXCEPT ![p].children = Append(@, c), ![c].parent = p ]
    IN  Logged([ M EXCEPT !.dm = dm2 ], "appendChild", p, "", "", c)

\* parent.prepend(child)
DomPrepend(M, p, c) ==
    IF NoCall(M, p) THEN Failed(M) ELSE
    LET dm1 == Detached(M.dm, c)
        dm2 == [ dm1 EXCEPT ![p].children = << c >> \o @, ![c].parent = p ]
    IN  Logged([ M EXCEPT !.dm = dm2 ], "prepend", p, "", "", c)

\* parent.removeChild(child)
DomRemoveChild(M, p, c) ==
    IF NoCall(M, p) THEN Failed(M)
    ELSE IF M.dm[c].parent # p THEN Raise(M)
    ELSE Logged([ M EXCEPT !.dm = Detached(M.dm, c) ], "removeChild", p, "", "", c)

\* parent.insertBefore(child, ref); ref = 0 stands for null (append)
DomInsertBefore(M, p, c, ref) ==
    IF NoCall(M, p) THEN Failed(M)
    ELSE IF ref = 0 THEN DomAppendChild(M, p, c)
    ELSE IF M.dm[ref].parent # p THEN Raise(M)
    ELSE IF ref = c THEN Logged(M, "insertBefore", p, "", "", c)
    ELSE LET dm1 == Detached(M.dm, c)
             at == IndexOf(dm1[p].children, ref)
             dm2 == [ dm1 EXCEPT ![p].children = InsertAt(@, at, c), ![c].parent = p ]
         IN  Logged([ M EXCEPT !.dm = dm2 ], "insertBefore", p, "", "", c)

\* old.replaceWith(new): nothing happens when old has no parent
DomReplaceWith(M, old, new) ==
    IF NoCall(M, old) THEN Failed(M)
    ELSE IF M.dm[old].parent = 0 \/ old = new THEN Logged(M, "replaceWith", old, "", "", new)
    ELSE LET p == M.dm[old].parent
             dm1 == Detached(M.dm, new)
             at == IndexOf(dm1[p].children, old)
             dm2 == [ dm1 EXCEPT ![p].children = [ @ EXCEPT ![at] = new ],
                                 ![new].parent = p, ![old].parent = 0 ]
         IN  Logged([ M EXCEPT !.dm = dm2 ], "replaceWith", old, "", "", new)

\* dom.nextSibling, 0 for null
NextSibling(dm, d) ==
    LET p == dm[d].parent
        at == IndexOf(dm[p].children, d)
    IN  IF at < Len(dm[p].children) THEN dm[p].children[at + 1] ELSE 0

----------------------------------------------------------------------------
\* VNode (VirtualDOM/VNode.js)

NewVNode(type, tag, key, styles, attributes, events, body, view) ==
    [ type |-> type, tag |-> tag, key |-> key, styles |-> styles,
      attributes |-> attributes, events |-> events, body |-> body,
      dom |-> 0, view |-> view ]

\* new VNode(...): the object is allocated on the heap and returned
Alloc(M, node) ==
    [ M EXCEPT !.vn = Append(@, node), !.ret = VNodeRef(Len(M.vn) + 1) ]

RECURSIVE SetStyles(_, _, _, _)
SetStyles(M, d, styles, i) ==
    IF i > Len(StyleKeySeq) THEN M
    ELSE LET key == StyleKeySeq[i]
         IN  SetStyles(IF key \in DOMAIN styles
                       THEN DomSetStyle(M, d, key, ToStringOf(styles[key]))
                       ELSE M, d, styles, i + 1)

RECURSIVE SetAttributes(_, _, _, _)
SetAttributes(M, d, attributes, i) ==
    IF i > Len(AttrNameSeq) THEN M
    ELSE LET name == AttrNameSeq[i]
         IN  SetAttributes(IF name \in DOMAIN attributes
                           THEN DomSetAttribute(M, d, name, ToStringOf(attributes[name]))
                           ELSE M, d, attributes, i + 1)

RECURSIVE AddHandlers(_, _, _, _, _)
AddHandlers(M, d, name, list, j) ==
    IF j > Len(list) THEN M
    ELSE AddHandlers(DomAddEventListener(M, d, name, list[j]), d, name, list, j + 1)

RECURSIVE AddListeners(_, _, _, _)
AddListeners(M, d, events, i) ==
    IF i > Len(EventNameSeq) THEN M
    ELSE LET name == EventNameSeq[i]
         IN  AddListeners(IF name \in DOMAIN events
                          THEN AddHandlers(M, d, name, events[name], 1)
                          ELSE M, d, events, i + 1)

RECURSIVE toHTMLNode(_, _, _)
RECURSIVE AppendKids(_, _, _, _, _)

\* the freshly created live node takes the styles, attributes and handlers of the node
Decorated(M, node, d) ==
    IF node.type = "text" THEN M
    ELSE AddListeners(SetAttributes(SetStyles(M, d, node.styles, 1), d, node.attributes, 1),
                      d, node.events, 1)

\* with save the node keeps its live node in .dom; the live node is returned
Saved(M, n, d, save) ==
    IF M.err THEN M
    ELSE [ M EXCEPT !.vn[n].dom = IF save THEN d ELSE @, !.rd = d ]

\* vNode.toHTMLNode({ save }): builds the live subtree of the node; with save
\* every node of the subtree keeps its live node in .dom
toHTMLNode(M, n, save) ==
    IF M.err THEN M
    ELSE Saved(AppendKids(Decorated(DomCreate(M, M.vn[n].type, M.vn[n].tag),
                                    M.vn[n], Len(M.dm) + 1),
                          n, Len(M.dm) + 1, save, 1),
               n, Len(M.dm) + 1, save)

\* the live node just built is appended to a parent
AppendBuilt(M, p) == IF M.err THEN M ELSE DomAppendChild(M, p, M.rd)

AppendKids(M, n, d, save, i) ==
    IF M.err \/ i > Len(M.vn[n].body) THEN M
    ELSE IF IsVNode(M.vn[n].body[i])
    THEN AppendKids(AppendBuilt(toHTMLNode(M, M.vn[n].body[i].vn, save), d),
                    n, d, save, i + 1)
    ELSE AppendKids(M, n, d, save, i + 1)

\* vNode.mountTo(parent)
VNodeMountTo(M, n, parent) == AppendBuilt(toHTMLNode(M, n, TRUE), parent)

RECURSIVE ClearDoms(_, _)
RECURSIVE ClearKidDoms(_, _, _)

\* the node and its subtree give up their live nodes
ClearDoms(vn, n) ==
    ClearKidDoms([ vn EXCEPT ![n].dom = 0 ], n, 1)

ClearKidDoms(vn, n, i) ==
    IF i > Len(vn[n].body) THEN vn
    ELSE ClearKidDoms(IF IsVNode(vn[n].body[i]) THEN ClearDoms(vn, vn[n].body[i].vn) ELSE vn,
                      n, i + 1)

\* vNode.unmount(): detaches the live subtree; nothing to do without a live node
VNodeUnmount(M, n) ==
    IF M.err \/ M.vn[n].dom = 0 THEN M
    ELSE [ (IF M.dm[M.vn[n].dom].parent = 0 THEN M
            ELSE DomRemoveChild(M, M.dm[M.vn[n].dom].parent, M.vn[n].dom))
           EXCEPT !.vn = ClearDoms(@, n) ]

----------------------------------------------------------------------------
\* View hooks (View.js)

\* view.handleMount(): the handlers registered for "mount" run
handleMount(M, v) ==
    IF M.err THEN M ELSE [ M EXCEPT !.mh[v] = @ + 1 ]

\* view.handleInvalidation(): the handlers registered for "invalidation" run
handleInvalidation(M, v) ==
    IF M.err THEN M ELSE [ M EXCEPT !.ih[v] = @ + 1 ]

\* the constructor leaves the key null
ViewKey(v) == NullKey

\* .key of a body entry that is an object
KeyOf(M, r) == IF IsVNode(r) THEN M.vn[r.vn].key ELSE ViewKey(r.vw)

\* .dom of a body entry that is an object, 0 for null or undefined
DomOf(M, r) == IF IsVNode(r) THEN M.vn[r.vn].dom ELSE 0

IsObject(r) == IsVNode(r) \/ IsView(r)

----------------------------------------------------------------------------
\* Reconciler (VirtualDOM/Reconciler.js)

\* a reconciler that leaves the styles next lacks on the live node
ClearOldStylesSkipped(M, l, n, i) == M

\* lines 77-81: styles of the previous node that the next node lacks are cleared
RECURSIVE ClearOldStyles(_, _, _, _)
ClearOldStyles(M, l, n, i) ==
    IF M.err \/ i > Len(StyleKeySeq) THEN M
    ELSE LET key == StyleKeySeq[i]
             hit == key \in DOMAIN M.vn[l].styles /\ key \notin DOMAIN M.vn[n].styles
         IN  ClearOldStyles(IF hit THEN DomSetStyle(M, M.vn[l].dom, key, Unset) ELSE M,
                            l, n, i + 1)

\* a reconciler that compares style values by identity, not by their printed form
RECURSIVE WriteNewStylesByIdentity(_, _, _, _)
WriteNewStylesByIdentity(M, l, n, i) ==
    IF M.err \/ i > Len(StyleKeySeq) THEN M
    ELSE LET key == StyleKeySeq[i]
             L == M.vn[l].styles
             N == M.vn[n].styles
             hit == key \in DOMAIN N /\ ~ (key \in DOMAIN L /\ L[key] = N[key])
         IN  WriteNewStylesByIdentity(
                 IF hit THEN DomSetStyle(M, M.vn[l].dom, key, ToStringOf(N[key])) ELSE M,
                 l, n, i + 1)

\* lines 83-87: styles of the next node that are new or print differently are written
RECURSIVE WriteNewStyles(_, _, _, _)
WriteNewStyles(M, l, n, i) ==
    IF M.err \/ i > Len(StyleKeySeq) THEN M
    ELSE LET key == StyleKeySeq[i]
             L == M.vn[l].styles
             N == M.vn[n].styles
             hit == key \in DOMAIN N
                    /\ ~ (key \in DOMAIN L /\ ToStringOf(L[key]) = ToStringOf(N[key]))
         IN  WriteNewStyles(IF hit THEN DomSetStyle(M, M.vn[l].dom, key, ToStringOf(N[key]))
                            ELSE M, l, n, i + 1)

\* lines 90-92: one removeEventListener per index of the NEXT node's list
RECURSIVE RemoveHandlers(_, _, _, _, _, _)
RemoveHandlers(M, d, name, old, new, j) ==
    IF M.err \/ j > Len(new) THEN M
    ELSE RemoveHandlers(
             IF j <= Len(old) THEN DomRemoveEventListener(M, d, name, old[j])
             ELSE IF NoCall(M, d) THEN Failed(M)
             ELSE Logged(M, "removeEventListener", d, name, "undefined", 0),
             d, name, old, new, j + 1)

\* lines 89-93: for every event name of the previous node
RECURSIVE RemoveOldListeners(_, _, _, _)
RemoveOldListeners(M, l, n, i) ==
    IF M.err \/ i > Len(EventNameSeq) THEN M
    ELSE LET name == EventNameSeq[i]
             L == M.vn[l].events
             N == M.vn[n].events
         IN  RemoveOldListeners(
                 IF name \in DOMAIN L /\ name \in DOMAIN N
                 THEN RemoveHandlers(M, M.vn[l].dom, name, L[name], N[name], 1)
                 ELSE M, l, n, i + 1)

\* lines 95-101: every handler of the next node is added
AddNewListeners(M, l, n) ==
    IF M.err THEN M ELSE AddListeners(M, M.vn[l].dom, M.vn[n].events, 1)

\* lines 103-107
RECURSIVE RemoveOldAttributes(_, _, _, _)
RemoveOldAttributes(M, l, n, i) ==
    IF M.err \/ i > Len(AttrNameSeq) THEN M
    ELSE LET name == AttrNameSeq[i]
             hit == name \in DOMAIN M.vn[l].attributes
                    /\ name \notin DOMAIN M.vn[n].attributes
         IN  RemoveOldAttributes(IF hit THEN DomRemoveAttribute(M, M.vn[l].dom, name) ELSE M,
                                 l, n, i + 1)

\* lines 109-113
RECURSIVE WriteNewAttributes(_, _, _, _)
WriteNewAttributes(M, l, n, i) ==
    IF M.err \/ i > Len(AttrNameSeq) THEN M
    ELSE LET name == AttrNameSeq[i]
             L == M.vn[l].attributes
             N == M.vn[n].attributes
             hit == name \in DOMAIN N
                    /\ ~ (name \in DOMAIN L /\ ToStringOf(L[name]) = ToStringOf(N[name]))
         IN  WriteNewAttributes(
                 IF hit THEN DomSetAttribute(M, M.vn[l].dom, name, ToStringOf(N[name]))
                 ELSE M, l, n, i + 1)

\* a search that takes two children without a key for a match
RECURSIVE FindKeyOrNone(_, _, _, _)
FindKeyOrNone(M, lb, nb, j) ==
    IF j > Len(nb) THEN 0
    ELSE IF ~ IsObject(nb[j]) \/ ~ IsObject(lb) THEN 0 - 1
    ELSE IF KeyOf(M, lb) = KeyOf(M, nb[j]) THEN j
    ELSE FindKeyOrNone(M, lb, nb, j + 1)

\* lines 119-126: index of the first next child carrying the key of the previous
\* child; 0 when there is none, -1 when the search dereferences null
RECURSIVE FindKey(_, _, _, _)
FindKey(M, lb, nb, j) ==
    IF j > Len(nb) THEN 0
    ELSE IF ~ IsObject(nb[j]) THEN 0 - 1
    ELSE IF ~ Truthy(KeyOf(M, nb[j])) THEN FindKey(M, lb, nb, j + 1)
    ELSE IF ~ IsObject(lb) THEN 0 - 1
    ELSE IF Truthy(KeyOf(M, lb)) /\ KeyOf(M, lb) = KeyOf(M, nb[j]) THEN j
    ELSE FindKey(M, lb, nb, j + 1)

\* a reconciler that patches nodes of different tags into one another
MismatchOfTextOnly(L, N) == L.type = "text" \/ N.type = "text"

\* line 72: the two nodes cannot be patched into one another
Mismatch(L, N) == L.tag # N.tag \/ L.type = "text" \/ N.type = "text"

RECURSIVE updateVNodeDOM(_, _, _)
RECURSIVE MatchPrevious(_, _, _, _, _)
RECURSIVE PlaceNext(_, _, _, _, _)
RECURSIVE UpdatePositional(_, _, _, _)

\* lines 117-131: every previous child is reconciled with the next child of the
\* same key, or removed from the live parent
MatchPrevious(M, l, n, i, keysUpdated) ==
    IF M.err THEN M
    ELSE IF i > Len(M.vn[l].body) THEN [ M EXCEPT !.keys = keysUpdated ]
    ELSE LET lb == M.vn[l].body[i]
             nb == M.vn[n].body
             j == FindKey(M, lb, nb, 1)
         IN  IF j < 0 THEN Raise(M)
             ELSE IF j > 0
             THEN MatchPrevious(updateVNodeDOM(M, lb, nb[j]), l, n, i + 1,
                                Append(keysUpdated, KeyOf(M, nb[j])))
             ELSE IF DomOf(M, lb) = 0 THEN Raise(M)
             ELSE MatchPrevious(
                      DomRemoveChild(M, M.dm[DomOf(M, lb)].parent, DomOf(M, lb)),
                      l, n, i + 1, keysUpdated)

\* lines 136-140: the live node just built goes after the live node of the left
\* neighbour, or to the head of the live parent
Inserted(M, l, n, i) ==
    IF M.err THEN M
    ELSE IF i > 1
    THEN IF DomOf(M, M.vn[n].body[i - 1]) = 0 THEN Raise(M)
         ELSE DomInsertBefore(M, M.dm[DomOf(M, M.vn[n].body[i - 1])].parent, M.rd,
                              NextSibling(M.dm, DomOf(M, M.vn[n].body[i - 1])))
    ELSE DomPrepend(M, M.vn[l].dom, M.rd)

\* lines 142-144
Announced(M, c) ==
    IF M.err THEN M
    ELSE IF M.vn[c].view # NoView THEN handleMount(M, M.vn[c].view) ELSE M

\* lines 133-146: every next child without a consumed key is built and inserted
\* after its left neighbour, and its View is told it was mounted
PlaceNext(M, l, n, i, keysUpdated) ==
    IF M.err \/ i > Len(M.vn[n].body) THEN M
    ELSE LET nb == M.vn[n].body[i]
         IN  IF ~ IsObject(nb) THEN Raise(M)
             ELSE IF Truthy(KeyOf(M, nb))
                     /\ \E x \in DOMAIN keysUpdated : keysUpdated[x] = KeyOf(M, nb)
             THEN PlaceNext(M, l, n, i + 1, keysUpdated)
             ELSE IF ~ IsVNode(nb) THEN Raise(M)
             ELSE PlaceNext(Announced(Inserted(toHTMLNode(M, nb.vn, TRUE), l, n, i), nb.vn),
                            l, n, i + 1, keysUpdated)

\* lines 148-150: children are reconciled position by position
UpdatePositional(M, l, n, i) ==
    IF M.err \/ i > Len(M.vn[n].body) THEN M
    ELSE UpdatePositional(updateVNodeDOM(M, M.vn[l].body[i], M.vn[n].body[i]),
                          l, n, i + 1)

\* line 73: the previous live node is replaced by the live node just built
Replaced(M, old) == IF M.err THEN M ELSE DomReplaceWith(M, old, M.rd)

\* lines 77-113: styles, handlers and attributes of the live node
Patch(M, l, n) ==
    WriteNewAttributes(
        RemoveOldAttributes(
            AddNewListeners(
                RemoveOldListeners(
                    WriteNewStyles(ClearOldStyles(M, l, n, 1), l, n, 1),
                    l, n, 1),
                l, n),
            l, n, 1),
        l, n, 1)

\* lines 133-146 after lines 116-131
Placed(M, l, n) == IF M.err THEN M ELSE PlaceNext(M, l, n, 1, M.keys)

\* lines 115-151
Children(M, l, n) ==
    IF M.err THEN M
    ELSE IF Len(M.vn[l].body) # Len(M.vn[n].body)
    THEN Placed(MatchPrevious(M, l, n, 1, << >>), l, n)
    ELSE UpdatePositional(M, l, n, 1)

\* lines 153-156: the live node is carried over and the View is told
Carried(M, l, n) ==
    IF M.err THEN M
    ELSE IF M.vn[n].view # NoView
    THEN handleInvalidation([ M EXCEPT !.vn[n].dom = M.vn[l].dom ], M.vn[n].view)
    ELSE [ M EXCEPT !.vn[n].dom = M.vn[l].dom ]

\* lines 72-156 for two VNodes
Visit(M, l, n) ==
    IF Mismatch(M.vn[l], M.vn[n])
    THEN IF M.vn[l].dom = 0 THEN Raise(M)
         ELSE Replaced(toHTMLNode(M, n, TRUE), M.vn[l].dom)
    ELSE Carried(Children(Patch(M, l, n), l, n), l, n)

\* Reconciler.updateVNodeDOM(lastVNode, vNode), lines 71-157
updateVNodeDOM(M, lr, nr) ==
    IF M.err THEN M
    ELSE IF ~ IsVNode(lr) \/ ~ IsVNode(nr) THEN Raise(M)
    ELSE Visit([ M EXCEPT !.pairs = Append(@, [ l |-> lr.vn, n |-> nr.vn ]) ], lr.vn, nr.vn)

----------------------------------------------------------------------------
\* Descriptions of what a getBody or a caller constructs with new VNode(...)

Elem(tag, key, styles, attributes, events, kids, view) ==
    [ k |-> "vnode", type |-> "element", tag |-> tag, key |-> key, styles |-> styles,
      attributes |-> attributes, events |-> events, kids |-> kids, view |-> view,
      vw |-> NoView ]

TextOf ==
    [ k |-> "vnode", type |-> "text", tag |-> "", key |-> NullKey, styles |-> EmptyMap,
      attributes |-> EmptyMap, events |-> EmptyEvents, kids |-> << >>, view |-> NoView,
      vw |-> NoView ]

ChildView(v) == [ k |-> "view", vw |-> v ]

RECURSIVE Build(_, _)
RECURSIVE BuildKids(_, _, _, _)
RECURSIVE BuildNext(_, _, _, _)

\* evaluates a construction: children first, then the node itself
AllocFrom(M, t) ==
    Alloc(M, NewVNode(t.type, t.tag, t.key, t.styles, t.attributes, t.events,
                      M.refs, t.view))

Build(M, t) ==
    IF t.k = "view" THEN [ M EXCEPT !.ret = ViewRef(t.vw) ]
    ELSE IF t.k = "bad" THEN [ M EXCEPT !.ret = BadRef ]
    ELSE IF t.k = "null" THEN [ M EXCEPT !.ret = NullRef ]
    ELSE AllocFrom(BuildKids(M, t.kids, 1, << >>), t)

BuildNext(M, kids, i, acc) == BuildKids(M, kids, i + 1, Append(acc, M.ret))

BuildKids(M, kids, i, acc) ==
    IF i > Len(kids) THEN [ M EXCEPT !.refs = acc ]
    ELSE BuildNext(Build(M, kids[i]), kids, i, acc)

----------------------------------------------------------------------------
\* Inputs of the reconciler: rendered trees (VNodes only)

One(key, val) == [ x \in { key } |-> val ]

KidA == Elem("p", 1, One("color", "red1"), EmptyMap, One("click", << "h1" >>), << >>, "leaf")
KidA2 == Elem("b", 1, EmptyMap, EmptyMap, EmptyEvents, << >>, "leaf")
KidB == Elem("p", 2, EmptyMap, One("id", "blue"), EmptyEvents, << >>, NoView)
KidC == Elem("p", 3, EmptyMap, EmptyMap, EmptyEvents, << >>, "leaf")
KidU == Elem("p", NullKey, One("color", "blue"), EmptyMap, EmptyEvents, << TextOf >>, "panel")

KidSet == { KidA, KidA2, KidB, KidC, KidU }

\* setKey(key), lines 104-112: Number(key) for a number, key.toString() for the
\* rest; the positive numbers stand for the non-zero numbers and the non-empty
\* strings, ZeroKey for the number 0 and EmptyKey for the string ""
ZeroKey == 0
EmptyKey == 0 - 2
SetKeyValues == { ZeroKey, EmptyKey, 1, 2, 3 }

KidZ == Elem("p", ZeroKey, One("color", "red1"), EmptyMap, EmptyEvents, << >>, "leaf")
KidE == Elem("p", EmptyKey, EmptyMap, One("id", "blue"), EmptyEvents, << >>, NoView)

\* child lists with a child whose key is 0 or ""
FalsyKeyLists ==
    { << KidZ >>, << KidZ, KidB >>, << KidB, KidZ, KidU >>, << KidE >>, << KidB, KidE >> }

\* sibling keys are unique
KidLists ==
    { s \in UNION { [ 1 .. m -> KidSet ] : m \in 0 .. MaxKids } :
        \A i, j \in DOMAIN s : i # j => s[i].key # s[j].key }

StyleMaps == UNION { [ D -> Values ] : D \in SUBSET StyleKeys }

Attrs1 == EmptyMap
Attrs2 == One("id", "red1")
Attrs3 == [ x \in { "id", "title" } |-> IF x = "id" THEN "red2" ELSE "blue" ]
Attrs4 == One("title", "blue")

Events1 == EmptyEvents
Events2 == One("click", << "h1" >>)
Events3 == One("click", << "h1", "h2" >>)
Events4 == [ x \in { "click", "input" } |-> IF x = "click" THEN << "h2" >> ELSE << "h3" >> ]

Profiles == { << Attrs1, Events1 >>, << Attrs2, Events2 >>, << Attrs3, Events3 >>,
              << Attrs4, Events4 >> }

\* roots that differ in their child lists
ShapeRoots ==
    { Elem("div", NullKey, One("color", "red1"), EmptyMap, EmptyEvents, kids, "wrapper") :
        kids \in KidLists \cup FalsyKeyLists }

\* roots that differ in their styles, attributes and handlers
PropRoots ==
    { Elem("div", NullKey, st, pr[1], pr[2], << >>, NoView) :
        st \in StyleMaps, pr \in Profiles }

\* roots of another tag
OtherRoots ==
    { Elem("span", NullKey, One("color", "red1"), Attrs2, Events2, kids, "wrapper") :
        kids \in { << >>, << KidU >>, << KidA, KidB >> } }

RootTemplates == ShapeRoots \cup PropRoots \cup OtherRoots

----------------------------------------------------------------------------
\* View properties: styles, attributes, events and key of a View (View.js)

\* Object.assign(f, g): the entries of g written over those of f
Overlay(f, g) == [ x \in DOMAIN f \cup DOMAIN g |-> IF x \in DOMAIN g THEN g[x] ELSE f[x] ]

\* Object.assign(target, source) on the heap: the target object is changed in
\* place and is the value of the call
Assigned(ob, t, src) == [ ob EXCEPT ![t] = Overlay(@, ob[src]) ]

\* a handler function, and the array of handlers events[event] holds
FunctionOf(h) == [ k |-> "function", f |-> h, items |-> << >> ]
ArrayOf(hs) == [ k |-> "array", f |-> "", items |-> hs ]

\* view.addHandlerFor(event, handler), lines 282-292, on the events object ev
addHandlerFor(ev, event, handler) ==
    IF handler.k # "function" THEN ev
    ELSE IF event \in DOMAIN ev THEN [ ev EXCEPT ![event] = Append(@, handler.f) ]
    ELSE Overlay(ev, One(event, << handler.f >>))

\* lines 554-556: for (let i in view.events) this.addHandlerFor(i, view.events[i])
RECURSIVE HandlersApplied(_, _, _)
HandlersApplied(ev, src, names) ==
    IF names = << >> THEN ev
    ELSE HandlersApplied(IF Head(names) \in DOMAIN src
                     THEN addHandlerFor(ev, Head(names), ArrayOf(src[Head(names)]))
                     ELSE ev,
                     src, Tail(names))

\* view.setKey(key), lines 104-112: Number(key) of a number is that number
setKey(h, key) == [ h EXCEPT !.key = key ]

\* lines 558-560
KeyApplied(h, key) == IF Truthy(key) THEN setKey(h, key) ELSE h

\* lines 552-553: both Object.assign calls have this.styles as their target,
\* and the value of the second becomes this.attributes
StylesAssigned(ob, A, B) == Assigned(Assigned(ob, A.styles, B.styles), A.styles, B.attributes)

AttributesBound(A) == [ A EXCEPT !.attributes = A.styles ]

\* a.applyViewProperties(b), lines 550-565: the View a afterwards
Applied(A, B) ==
    KeyApplied([ AttributesBound(A) EXCEPT !.events = HandlersApplied(@, B.events, EventNameSeq) ],
               B.key)

\* a View with its own styles and attributes objects (constructor, lines 46-49)
Holder(st, at, ev, key) == [ styles |-> st, attributes |-> at, events |-> ev, key |-> key ]

\* what applyCSS, setAttributes, addHandlerFor and setKey can have left in a View
HolderStyles == { EmptyMap, One("color", "red1"), [ x \in StyleKeys |-> "blue" ] }
HolderAttributes == { EmptyMap, One("id", "red1"), [ x \in AttrNames |-> "blue" ] }
HolderEvents == { EmptyEvents, One("click", << "h1" >>),
                  [ x \in EventNames |-> IF x = "click" THEN << "h2", "h3" >> ELSE << "h1" >> ] }
HolderKeys == { NullKey, 2 }

IdleHolders == [ h \in { "a", "b" } |-> Holder(0, 0, EmptyEvents, NullKey) ]

----------------------------------------------------------------------------
\* Fonts (Font.js)

\* the value undefined, which prints as the text "undefined"
Undefined == "undefined"
NoValue == "<null>"

\* new Enum(...): a member is its identifier; any other property is undefined
WeightSeq == << "regular", "ultraLight", "thin", "light", "medium", "semibold", "bold",
                "heavy", "black" >>
Weight == { WeightSeq[i] : i \in DOMAIN WeightSeq }
FontStyle == { "normal", "italic", "oblique" }
Member(enum, id) == IF id \in enum THEN id ELSE Undefined
Contains(enum, x) == x \in enum

\* weightToCssValue(weight), lines 147-172
weightToCssValue(weight) ==
    IF ~ Contains(Weight, weight) THEN Undefined
    ELSE IF weight = Member(Weight, "ultraThin") THEN "100"
    ELSE IF weight = Member(Weight, "thin") THEN "200"
    ELSE IF weight = Member(Weight, "light") THEN "300"
    ELSE IF weight = Member(Weight, "regular") THEN "400"
    ELSE IF weight = Member(Weight, "medium") THEN "500"
    ELSE IF weight = Member(Weight, "semibold") THEN "600"
    ELSE IF weight = Member(Weight, "bold") THEN "700"
    ELSE IF weight = Member(Weight, "heavy") THEN "800"
    ELSE IF weight = Member(Weight, "black") THEN "900"
    ELSE Undefined

\* fontStyleToCssValue(fontStyle), lines 178-191
fontStyleToCssValue(fontStyle) ==
    IF ~ Contains(FontStyle, fontStyle) THEN Undefined
    ELSE IF fontStyle = Member(FontStyle, "normal") THEN "normal"
    ELSE IF fontStyle = Member(FontStyle, "italic") THEN "italic"
    ELSE IF fontStyle = Member(FontStyle, "oblique") THEN "oblique"
    ELSE Undefined

\* what is passed to new Font({ name, size, weight, fontStyle })
FontNames == { NoValue, "serif" }
FontSizes == { NoValue, "12", "18px" }
FontWeights == Weight \cup { NoValue, "bolder" }
FontStyles == FontStyle \cup { NoValue }

\* lines 50-54: a number becomes a Length in points, no size one parent font size
SizeOf(size) ==
    IF size = NoValue THEN "1em" ELSE IF size = "12" THEN "12pt" ELSE size

\* new Font(...), lines 44-55
Font(name, size, weight, fontStyle) ==
    [ name |-> name,
      weight |-> IF Contains(Weight, weight) THEN weight ELSE NoValue,
      fontStyle |-> IF Contains(FontStyle, fontStyle) THEN fontStyle ELSE NoValue,
      size |-> SizeOf(size) ]

\* pieces of font.toString(), lines 92-112, each followed by a blank in the text
StyleWord(f) ==
    IF Contains(FontStyle, f.fontStyle) THEN << fontStyleToCssValue(f.fontStyle) >> ELSE << >>
WeightWord(f) ==
    IF Contains(Weight, f.weight) THEN << weightToCssValue(f.weight) >> ELSE << "inherit" >>
NameWord(f) == IF f.name # NoValue THEN << f.name >> ELSE << "inherit" >>

\* font.toString(), lines 88-115, as the sequence of its words
fontToString(f) == StyleWord(f) \o WeightWord(f) \o << f.size >> \o NameWord(f)

IdleFont == Font(NoValue, NoValue, NoValue, NoValue)

\* no View properties and no font are under test
IdleValues ==
    /\ objects = << >>
    /\ holders = IdleHolders
    /\ font = IdleFont
    /\ fontText = << >>

----------------------------------------------------------------------------
\* Initial values shared by the specifications

NoLast == [ op |-> "none", view |-> NoView, raised |-> FALSE, pairs |-> << >>, snap |-> 0 ]

Body == NewDom("element", "body")

FreshViews ==
    [ v \in Views |-> [ lastVNode |-> 0, state |-> 0, force |-> FALSE, quiet |-> FALSE ] ]

Zero == [ v \in Views |-> 0 ]

EmptyMachine ==
    [ vn |-> << >>, dm |-> << Body >>, vw |-> FreshViews, log |-> << >>,
      mh |-> Zero, ih |-> Zero, gb |-> Zero, ps |-> Zero, err |-> FALSE,
      ret |-> NullRef, rd |-> 0, keys |-> << >>, pairs |-> << >>, refs |-> << >>,
      q |-> << >> ]

----------------------------------------------------------------------------
\* Reconciler harness: a previous tree, committed and live under the body, and a
\* freshly rendered next tree

InitWith(M, prev, next) ==
    /\ vnodes = M.vn
    /\ doms = M.dm
    /\ views = FreshViews
    /\ queue = << >>
    /\ log = << >>
    /\ mountHooks = Zero
    /\ invalHooks = Zero
    /\ bodyCalls = Zero
    /\ passes = Zero
    /\ last = NoLast
    /\ calls = 0
    /\ rPrev = prev
    /\ rNext = next
    /\ rPhase = "ready"
    /\ rDoms = Len(M.dm)
    /\ IdleValues

Committed(M, prev) == InitWith(VNodeMountTo(M, prev, RootDom), prev, M.ret.vn)

Rendered(M, q) == Committed(Build(M, q), M.ret.vn)

InitR == \E p \in RootTemplates, q \in RootTemplates : Rendered(Build(EmptyMachine, p), q)

ReconcileWith(M) ==
    /\ vnodes' = M.vn
    /\ doms' = M.dm
    /\ log' = M.log
    /\ mountHooks' = M.mh
    /\ invalHooks' = M.ih
    /\ last' = [ op |-> "reconcile", view |-> NoView, raised |-> M.err,
                 pairs |-> M.pairs, snap |-> 0 ]

Reconcile ==
    /\ rPhase = "ready"
    /\ ReconcileWith(updateVNodeDOM([ Machine EXCEPT !.log = << >> ],
                                    VNodeRef(rPrev), VNodeRef(rNext)))
    /\ rPhase' = "done"
    /\ UNCHANGED << views, queue, bodyCalls, passes, calls, rPrev, rNext, rDoms >>
    /\ UNCHANGED valueVars

NextR == Reconcile

SpecR == InitR /\ [][NextR]_vars

----------------------------------------------------------------------------
\* What the Views of the model render

StateValue(st) == IF st % 2 = 0 THEN "red1" ELSE "blue"

\* the wrapper and the leaf keep getInitialState of lines 126-128, an object without
\* keys; the panel has one key
StateValues(v) == IF v = "panel" THEN 0 .. MaxState ELSE { 0 }

\* the state of the panel selects what its getBody does
Variant(st) == st % 8

\* a value that is neither a View nor a VNode, such as a number
BadValue == [ k |-> "bad" ]

\* the children of the panel, by its state
PanelKids(st) ==
    CASE Variant(st) = 1 -> << Elem("p", 1, EmptyMap, EmptyMap, EmptyEvents, << >>, NoView),
                               ChildView("leaf") >>
      [] Variant(st) = 2 -> << Elem("section", NullKey, EmptyMap, EmptyMap, EmptyEvents,
                                    << ChildView("leaf") >>, NoView) >>
      [] Variant(st) = 4 -> << ChildView("leaf"), BadValue >>
      [] Variant(st) = 5 -> << Elem("section", NullKey, EmptyMap, EmptyMap, EmptyEvents,
                                    << BadValue >>, NoView) >>
      [] OTHER -> << ChildView("leaf") >>

\* what getBody constructs: the wrapper delegates its whole body to the panel,
\* the panel builds a node from its state, the leaf keeps View.getBody (lines 134-144)
BodyOf(v, st) ==
    CASE v = "wrapper" -> ChildView("panel")
      [] v = "panel" /\ Variant(st) = 3 -> BadValue
      [] v = "panel" -> Elem("div", NullKey, EmptyMap, One("id", StateValue(st)),
                             EmptyEvents, PanelKids(st), "panel")
      [] OTHER -> Elem("div", ViewKey(v), EmptyMap, EmptyMap, EmptyEvents, << >>, v)

RECURSIVE stateSet(_, _, _)
RECURSIVE stateDispatch(_, _, _)

\* what the body does to the state of its View before it builds its result: the
\* panel calls this.state.set in one state and this.state.dispatch in another
BodyEffect(M, v) ==
    IF v = "panel" /\ Variant(M.vw[v].state) = 6 THEN stateSet(M, v, 0)
    ELSE IF v = "panel" /\ Variant(M.vw[v].state) = 7 THEN stateDispatch(M, v, 0)
    ELSE M

\* the body is built from the state the call started with
BodyBuilt(M, v, st) == IF M.err THEN M ELSE Build(M, BodyOf(v, st))

\* view.getBody(side)
getBody(M, v) ==
    IF M.err THEN M
    ELSE BodyBuilt(BodyEffect([ M EXCEPT !.gb[v] = @ + 1 ], v), v, M.vw[v].state)

----------------------------------------------------------------------------
\* View (Views/View.js)

\* the derived getter of lines 78-81
Mounted(M, v) ==
    /\ M.vw[v].lastVNode # 0
    /\ M.vn[M.vw[v].lastVNode].dom # 0

\* Worker.addUnitOfWork(work)
addUnitOfWork(M, unit) == [ M EXCEPT !.q = Append(@, unit) ]

Unit(op, v, parent, snap) == [ op |-> op, view |-> v, parent |-> parent, snap |-> snap ]

RECURSIVE SaveVNode(_, _, _, _)
\* lines 637-641
SaveVNode(vw, chain, node, i) ==
    IF i > Len(chain) THEN vw
    ELSE SaveVNode([ vw EXCEPT ![chain[i]].lastVNode = node ], chain, node, i + 1)

RECURSIVE renderToVNode(_, _, _, _)
RECURSIVE RenderChain(_, _, _, _)
RECURSIVE RenderKids(_, _, _, _)

\* line 614 or 618: the value becomes the body just returned
ChainNext(M, v, chain, ignoreStateChange) ==
    RenderChain(M, M.ret, Append(chain, v), ignoreStateChange)

\* line 612: state.set of the View is replaced by a function that does nothing
Quieted(M, v) == [ M EXCEPT !.vw[v].quiet = TRUE ]

\* line 615: state.set of the View is given back the function saved at line 611
Restored(M, v, saved) == IF M.err THEN M ELSE [ M EXCEPT !.vw[v].quiet = saved ]

\* lines 610-616
ChainQuiet(M, v, chain) ==
    ChainNext(Restored(getBody(Quieted(M, v), v), v, M.vw[v].quiet), v, chain, TRUE)

\* lines 607-620: while the value is a View it is recorded and replaced by its body
RenderChain(M, r, chain, ignoreStateChange) ==
    IF M.err \/ ~ IsView(r) THEN [ M EXCEPT !.ret = r, !.refs = chain ]
    ELSE IF ignoreStateChange THEN ChainQuiet(M, r.vw, chain)
    ELSE ChainNext(getBody(M, r.vw), r.vw, chain, FALSE)

\* line 630: the rendered child takes the place of the entry
KidRendered(M, n, i) ==
    IF M.err THEN M ELSE [ M EXCEPT !.vn[n].body[i] = M.ret ]

\* lines 628-634: every child is rendered in place, or the render fails
RenderKids(M, n, i, ignoreStateChange) ==
    IF M.err \/ i > Len(M.vn[n].body) THEN M
    ELSE IF IsView(M.vn[n].body[i]) \/ IsVNode(M.vn[n].body[i])
    THEN RenderKids(KidRendered(renderToVNode(M, M.vn[n].body[i], TRUE, ignoreStateChange),
                                n, i),
                    n, i + 1, ignoreStateChange)
    ELSE Raise(M)

\* lines 637-644: the Views of the chain keep the node and the node is returned
Kept(M, chain, node, saveVNode) ==
    IF M.err THEN M
    ELSE [ M EXCEPT !.vw = IF saveVNode THEN SaveVNode(@, chain, node.vn, 1) ELSE @,
                    !.ret = node ]

\* line 627: the node records the innermost View of the chain
Owned(M, chain, node) ==
    [ M EXCEPT !.vn[node.vn].view = IF chain = << >> THEN NoView ELSE chain[Len(chain)] ]

\* a render that returns whatever the chain ended in
ResolvedUnchecked(M, saveVNode, ignoreStateChange) ==
    IF M.err THEN M
    ELSE IF ~ IsVNode(M.ret) THEN Kept(M, M.refs, M.ret, saveVNode)
    ELSE Kept(RenderKids(Owned(M, M.refs, M.ret), M.ret.vn, 1, ignoreStateChange),
              M.refs, M.ret, saveVNode)

\* lines 622-644, with the chain of Views in M.refs and its outcome in M.ret
Resolved(M, saveVNode, ignoreStateChange) ==
    IF M.err THEN M
    ELSE IF M.ret.k = "null" THEN Kept(M, M.refs, NullRef, saveVNode)
    ELSE IF ~ IsVNode(M.ret) THEN Raise(M)
    ELSE Kept(RenderKids(Owned(M, M.refs, M.ret), M.ret.vn, 1, ignoreStateChange),
              M.refs, M.ret, saveVNode)

\* View.renderToVNode({ view, saveVNode, ignoreStateChange }), lines 598-645
renderToVNode(M, r, saveVNode, ignoreStateChange) ==
    IF M.err THEN M
    ELSE IF IsVNode(r) THEN [ M EXCEPT !.ret = r ]
    ELSE Resolved(RenderChain(M, r, << >>, ignoreStateChange), saveVNode, ignoreStateChange)

\* lines 230-231: the rendered node becomes the committed node and the View is told
Replace(M, v, node) ==
    IF M.err THEN M
    ELSE handleInvalidation([ M EXCEPT !.vw[v].lastVNode = node.vn ], v)

\* line 229, with the rendered node in M.ret
Reconciled(M, v) ==
    IF M.err THEN M
    ELSE Replace(updateVNodeDOM(M, VNodeRef(M.vw[v].lastVNode), M.ret), v, M.ret)

\* view.forceInvalidate(), lines 226-233
forceInvalidate(M, v) ==
    IF M.err \/ ~ Mounted(M, v) THEN M
    ELSE Reconciled(renderToVNode([ M EXCEPT !.ps[v] = @ + 1 ], ViewRef(v), FALSE, FALSE), v)

\* an invalidate that merges with a unit of work already queued for the View
invalidateCoalesced(M, v) ==
    IF M.err \/ ~ Mounted(M, v) THEN M
    ELSE IF \E i \in DOMAIN M.q : M.q[i].op = "invalidateUnit" /\ M.q[i].view = v THEN M
    ELSE addUnitOfWork(M, Unit("invalidateUnit", v, 0, M.vw[v].state))

\* an invalidate without the guard of line 216
invalidateUnguarded(M, v) ==
    IF M.err THEN M ELSE addUnitOfWork(M, Unit("invalidateUnit", v, 0, M.vw[v].state))

\* view.invalidate(), lines 215-221
invalidate(M, v) ==
    IF M.err \/ ~ Mounted(M, v) THEN M
    ELSE addUnitOfWork(M, Unit("invalidateUnit", v, 0, M.vw[v].state))

\* the subscriber of lines 62-68
Subscriber(M, v) ==
    IF M.vw[v].force THEN forceInvalidate(M, v) ELSE invalidate(M, v)

\* view.state.dispatch({ type: "set", value }): the reducer of lines 53-60 gives
\* the snapshot the value and the subscriber is notified before dispatch returns
stateDispatch(M, v, x) ==
    IF M.err THEN M ELSE Subscriber([ M EXCEPT !.vw[v].state = x ], v)

\* view.state.set(keys), lines 70-72, unless line 612 has replaced it
stateSet(M, v, x) ==
    IF M.err \/ M.vw[v].quiet THEN M ELSE stateDispatch(M, v, x)

\* node.toString() on the value renderToVNode returned: null has no toString
Stringified(M) ==
    IF M.err THEN M ELSE IF M.ret.k = "null" THEN Raise(M) ELSE M

\* view.toString(side), lines 542-545
toString(M, v) == Stringified(renderToVNode(M, ViewRef(v), FALSE, TRUE))

\* view.preferForceInvalidation(): the constructor's field of line 51 hides the
\* method of lines 87-90, so the call is a call of a boolean
preferForceInvalidation(M, v) == Raise(M)

\* view.preferScheduledInvalidation(), lines 95-98
preferScheduledInvalidation(M, v) == [ M EXCEPT !.vw[v].force = FALSE ]

\* the application writes the field read at line 63: view.preferForceInvalidation = true
assignPreferForceInvalidation(M, v) == [ M EXCEPT !.vw[v].force = TRUE ]

\* view.mountTo(parent), lines 183-197; parent 0 stands for a value that is no Node
mountTo(M, v, parent) ==
    IF Mounted(M, v) THEN Raise(M)
    ELSE IF parent = 0 THEN Raise(M)
    ELSE addUnitOfWork(M, Unit("mountUnit", v, parent, 0))

\* an unmount without the guard of lines 203-205
unmountUnguarded(M, v) == addUnitOfWork(M, Unit("unmountUnit", v, 0, 0))

\* view.unmount(), lines 202-210
unmount(M, v) ==
    IF ~ Mounted(M, v) THEN Raise(M)
    ELSE addUnitOfWork(M, Unit("unmountUnit", v, 0, 0))

\* a unit of work that forgets the post-mount hook
AttachedSilently(M, v, parent) ==
    IF M.err THEN M
    ELSE IF M.vw[v].lastVNode = 0 THEN Raise(M)
    ELSE VNodeMountTo(M, M.vw[v].lastVNode, parent)

\* lines 194-195
Attached(M, v, parent) ==
    IF M.err THEN M
    ELSE IF M.vw[v].lastVNode = 0 THEN Raise(M)
    ELSE handleMount(VNodeMountTo(M, M.vw[v].lastVNode, parent), v)

\* the unit of work queued by mountTo, lines 193-195
MountUnit(M, v, parent) == Attached(renderToVNode(M, ViewRef(v), TRUE, FALSE), v, parent)

\* the unit of work queued by unmount, line 208
UnmountUnit(M, v) ==
    IF M.vw[v].lastVNode = 0 THEN Raise(M)
    ELSE VNodeUnmount(M, M.vw[v].lastVNode)

\* the Worker runs one unit of work
RunUnit(M, u) ==
    CASE u.op = "mountUnit" -> MountUnit(M, u.view, u.parent)
      [] u.op = "unmountUnit" -> UnmountUnit(M, u.view)
      [] OTHER -> forceInvalidate(M, u.view)

----------------------------------------------------------------------------
\* The View lifecycle: calls from the application and the Worker draining its queue

\* no View has been mounted or rendered and nothing is queued
IdleProgram ==
    /\ vnodes = << >>
    /\ doms = << Body >>
    /\ views = FreshViews
    /\ queue = << >>
    /\ log = << >>
    /\ mountHooks = Zero
    /\ invalHooks = Zero
    /\ bodyCalls = Zero
    /\ passes = Zero
    /\ last = NoLast
    /\ calls = 0
    /\ rPrev = 0
    /\ rNext = 0
    /\ rPhase = "off"
    /\ rDoms = 0

Init == IdleProgram /\ IdleValues

Start == [ Machine EXCEPT !.log = << >> ]

Commit(M, op, v, snap) ==
    /\ vnodes' = M.vn
    /\ doms' = M.dm
    /\ views' = M.vw
    /\ queue' = M.q
    /\ log' = M.log
    /\ mountHooks' = M.mh
    /\ invalHooks' = M.ih
    /\ bodyCalls' = M.gb
    /\ passes' = M.ps
    /\ last' = [ op |-> op, view |-> v, raised |-> M.err, pairs |-> M.pairs, snap |-> snap ]
    /\ UNCHANGED << rPrev, rNext, rPhase, rDoms >>
    /\ UNCHANGED valueVars

CanCall == rPhase = "off" /\ calls < MaxCalls /\ Len(queue) < MaxQueue

CallMountTo ==
    /\ CanCall
    /\ \E v \in Views, parent \in { 0, RootDom } :
          Commit(mountTo(Start, v, parent), "mountTo", v, 0)
    /\ calls' = calls + 1

CallUnmount ==
    /\ CanCall
    /\ \E v \in Views : Commit(unmount(Start, v), "unmount", v, 0)
    /\ calls' = calls + 1

CallInvalidate ==
    /\ CanCall
    /\ \E v \in Views : Commit(invalidate(Start, v), "invalidate", v, 0)
    /\ calls' = calls + 1

CallForceInvalidate ==
    /\ CanCall
    /\ \E v \in Views : Commit(forceInvalidate(Start, v), "forceInvalidate", v, 0)
    /\ calls' = calls + 1

CallSet ==
    /\ CanCall
    /\ \E v \in Views : \E x \in StateValues(v) : Commit(stateSet(Start, v, x), "set", v, 0)
    /\ calls' = calls + 1

CallToString ==
    /\ CanCall
    /\ \E v \in Views : Commit(toString(Start, v), "toString", v, 0)
    /\ calls' = calls + 1

CallPreferForceInvalidation ==
    /\ CanCall
    /\ \E v \in Views :
          Commit(preferForceInvalidation(Start, v), "preferForceInvalidation", v, 0)
    /\ calls' = calls + 1

CallPreferScheduledInvalidation ==
    /\ CanCall
    /\ \E v \in Views :
          Commit(preferScheduledInvalidation(Start, v), "preferScheduledInvalidation", v, 0)
    /\ calls' = calls + 1

AssignPreferForceInvalidation ==
    /\ CanCall
    /\ \E v \in Views :
          Commit(assignPreferForceInvalidation(Start, v), "assignForce", v, 0)
    /\ calls' = calls + 1

Drain ==
    /\ rPhase = "off"
    /\ queue # << >>
    /\ LET u == Head(queue)
       IN  Commit(RunUnit([ Start EXCEPT !.q = Tail(queue) ], u), u.op, u.view, u.snap)
    /\ UNCHANGED calls

Next ==
    \/ CallMountTo
    \/ CallUnmount
    \/ CallInvalidate
    \/ CallForceInvalidate
    \/ CallSet
    \/ CallToString
    \/ CallPreferForceInvalidation
    \/ CallPreferScheduledInvalidation
    \/ AssignPreferForceInvalidation
    \/ Drain

Spec == Init /\ [][Next]_vars

----------------------------------------------------------------------------
\* View properties harness: two Views a and b with their own style and
\* attribute objects, then a.applyViewProperties(b)

programVars == << vnodes, doms, views, queue, log, mountHooks, invalHooks, bodyCalls,
                 passes, calls, rPrev, rNext, rPhase, rDoms >>

Did(op, v) == [ NoLast EXCEPT !.op = op, !.view = v ]

InitP ==
    /\ IdleProgram
    /\ \E sa \in HolderStyles, aa \in HolderAttributes, sb \in HolderStyles,
          ab \in HolderAttributes : objects = << sa, aa, sb, ab >>
    /\ \E ea \in HolderEvents, ka \in HolderKeys, eb \in HolderEvents, kb \in HolderKeys :
          holders = [ h \in { "a", "b" } |-> IF h = "a" THEN Holder(1, 2, ea, ka)
                                                        ELSE Holder(3, 4, eb, kb) ]
    /\ font = IdleFont
    /\ fontText = << >>

ApplyViewProperties ==
    /\ objects' = StylesAssigned(objects, holders["a"], holders["b"])
    /\ holders' = [ holders EXCEPT !["a"] = Applied(@, holders["b"]) ]
    /\ last' = Did("applyViewProperties", "a")
    /\ UNCHANGED << programVars, font, fontText >>

NextP == ApplyViewProperties

SpecP == InitP /\ [][NextP]_vars

----------------------------------------------------------------------------
\* Font harness: a font built by the constructor, then font.toString()

InitF ==
    /\ IdleProgram
    /\ objects = << >>
    /\ holders = IdleHolders
    /\ \E name \in FontNames, size \in FontSizes, weight \in FontWeights,
          fontStyle \in FontStyles : font = Font(name, size, weight, fontStyle)
    /\ fontText = << >>

FontToString ==
    /\ fontText' = fontToString(font)
    /\ last' = Did("fontToString", NoView)
    /\ UNCHANGED << programVars, objects, holders, font >>

NextF == FontToString

SpecF == InitF /\ [][NextF]_vars

----------------------------------------------------------------------------
\* Reading the outcome of a reconciliation pass

Range(seq) == { seq[i] : i \in DOMAIN seq }

Count(seq, P(_)) == Cardinality({ i \in DOMAIN seq : P(seq[i]) })

Kid(n, i) == vnodes[n].body[i].vn

ChildDom(n, i) == vnodes[Kid(n, i)].dom

RECURSIVE SubDoms(_)
\* the live nodes held by the subtree of a VNode
SubDoms(n) ==
    { vnodes[n].dom } \cup
    UNION { IF IsVNode(vnodes[n].body[i]) THEN SubDoms(Kid(n, i)) ELSE {} :
              i \in DOMAIN vnodes[n].body }

RECURSIVE SameTree(_, _)
\* the two trees are copies: same tags, keys, printed values, handlers, children
SameTree(a, b) ==
    LET A == vnodes[a]
        B == vnodes[b]
    IN  /\ A.type = B.type /\ A.tag = B.tag /\ A.key = B.key
        /\ DOMAIN A.styles = DOMAIN B.styles
        /\ \A x \in DOMAIN A.styles : ToStringOf(A.styles[x]) = ToStringOf(B.styles[x])
        /\ DOMAIN A.attributes = DOMAIN B.attributes
        /\ \A x \in DOMAIN A.attributes :
              ToStringOf(A.attributes[x]) = ToStringOf(B.attributes[x])
        /\ A.events = B.events
        /\ Len(A.body) = Len(B.body)
        /\ \A i \in DOMAIN A.body : SameTree(Kid(a, i), Kid(b, i))

Done == rPhase = "done" /\ ~ last.raised

PrevRoot == vnodes[rPrev]
NextRoot == vnodes[rNext]

Patched(l, n) == ~ (vnodes[l].tag # vnodes[n].tag \/ vnodes[l].type = "text"
                    \/ vnodes[n].type = "text")

UnequalRegime == Patched(rPrev, rNext) /\ Len(PrevRoot.body) # Len(NextRoot.body)

AllKeyed(n) == \A i \in DOMAIN vnodes[n].body : Truthy(vnodes[Kid(n, i)].key)

KeyMatched(i) == \E j \in DOMAIN PrevRoot.body :
                    vnodes[Kid(rPrev, j)].key = vnodes[Kid(rNext, i)].key

StyleOps == { "style" }
AttributeOps == { "setAttribute", "removeAttribute" }
EventOps == { "addEventListener", "removeEventListener" }
ChildOps == { "removeChild", "insertBefore", "prepend", "appendChild" }

EffectiveStyle(n) ==
    [ x \in StyleKeys |-> IF x \in DOMAIN vnodes[n].styles
                          THEN ToStringOf(vnodes[n].styles[x]) ELSE Unset ]

HandlersOf(n, e) == IF e \in DOMAIN vnodes[n].events THEN Range(vnodes[n].events[e]) ELSE {}

HandlerCount(n) ==
    LET E == vnodes[n].events
        RECURSIVE Sum(_)
        Sum(D) == IF D = {} THEN 0
                  ELSE LET x == CHOOSE y \in D : TRUE IN Len(E[x]) + Sum(D \ { x })
    IN  Sum(DOMAIN E)

----------------------------------------------------------------------------
\* C5: in the unequal-child-count regime with keyed children, after the pass the
\* live parent's children are in the order of next's children, every next child
\* whose key matches a previous child keeps that child's live node, and every
\* next child with an unmatched key gets a fresh live node and its View's
\* post-mount hook is called.
C5_KeyedReorder ==
    (Done /\ UnequalRegime /\ AllKeyed(rPrev) /\ AllKeyed(rNext)) =>
        /\ doms[PrevRoot.dom].children = [ i \in DOMAIN NextRoot.body |-> ChildDom(rNext, i) ]
        /\ \A i \in DOMAIN NextRoot.body, j \in DOMAIN PrevRoot.body :
              vnodes[Kid(rPrev, j)].key = vnodes[Kid(rNext, i)].key
                  => ChildDom(rNext, i) = ChildDom(rPrev, j)
        /\ \A i \in DOMAIN NextRoot.body :
              ~ KeyMatched(i) =>
                  /\ ChildDom(rNext, i) > rDoms
                  /\ vnodes[Kid(rNext, i)].view # NoView
                        => mountHooks[vnodes[Kid(rNext, i)].view] > 0

\* C6: after the pass the handlers attached to the live node are, for every
\* event name, exactly the handlers next lists for that name.
C6_HandlersAreNext ==
    (Done /\ Patched(rPrev, rNext)) =>
        \A e \in EventNames : Range(doms[NextRoot.dom].listeners[e]) = HandlersOf(rNext, e)

\* C7: after a pass from styles S1 to styles S2 (same tag, neither Text) the
\* live node carries exactly the keys of S2 with S2's printed values; every
\* pair of nodes the pass patched is covered.
C7_StylesAreNext ==
    Done =>
        \A x \in DOMAIN last.pairs :
            LET pr == last.pairs[x]
            IN  Patched(pr.l, pr.n) => doms[vnodes[pr.l].dom].style = EffectiveStyle(pr.n)

C7_Witness ==
    /\ Done /\ Patched(rPrev, rNext)
    /\ \E x \in DOMAIN PrevRoot.styles : x \notin DOMAIN NextRoot.styles
    /\ \E x \in DOMAIN PrevRoot.styles \cap DOMAIN NextRoot.styles :
          ToStringOf(PrevRoot.styles[x]) # ToStringOf(NextRoot.styles[x])
    /\ \E e \in DOMAIN log : log[e].op = "style" /\ log[e].val = Unset

\* C8 as stated: reconciling a tree against an identical copy makes no style
\* write, no attribute set/remove and no listener add/remove call.
C8_NoMutationCalls ==
    (Done /\ SameTree(rPrev, rNext)) =>
        \A e \in DOMAIN log : log[e].op \notin StyleOps \cup AttributeOps \cup EventOps

\* C8 amended: reconciling a tree against an identical copy makes no style
\* write and no attribute set/remove call; every handler of every patched
\* node is removed once and added once, and the attached handlers are those of
\* the copy.
C8_NoStyleOrAttributeCalls ==
    (Done /\ SameTree(rPrev, rNext)) =>
        /\ \A e \in DOMAIN log : log[e].op \notin StyleOps \cup AttributeOps
        /\ \A x \in DOMAIN last.pairs :
              LET pr == last.pairs[x]
                  d == vnodes[pr.l].dom
                  Removes(c) == c.op = "removeEventListener" /\ c.dom = d
                  Adds(c) == c.op = "addEventListener" /\ c.dom = d
              IN  Patched(pr.l, pr.n) =>
                      /\ Count(log, Removes) = HandlerCount(pr.n)
                      /\ Count(log, Adds) = HandlerCount(pr.n)
                      /\ \A e \in EventNames :
                            Range(doms[d].listeners[e]) = HandlersOf(pr.n, e)

C8_Witness ==
    /\ Done /\ SameTree(rPrev, rNext)
    /\ DOMAIN NextRoot.styles # {} /\ DOMAIN NextRoot.attributes # {}
    /\ HandlerCount(rNext) > 1
    /\ \E x \in DOMAIN NextRoot.styles : PrevRoot.styles[x] # NextRoot.styles[x]

\* C9: when previous.tag differs from next.tag the previous live node is
\* replaced in its parent by a freshly built node for next, and no style,
\* attribute, event or child call is made on the previous live subtree,
\* whatever the children of the two nodes.
C9_TagChangeRebuilds ==
    Done =>
        /\ \A x \in DOMAIN last.pairs :
              LET pr == last.pairs[x]
              IN  vnodes[pr.l].tag # vnodes[pr.n].tag =>
                      /\ vnodes[pr.n].dom > rDoms
                      /\ doms[vnodes[pr.l].dom].parent = 0
                      /\ doms[vnodes[pr.n].dom].parent # 0
                      /\ \A e \in DOMAIN log :
                            log[e].op \in StyleOps \cup AttributeOps \cup EventOps \cup ChildOps
                                => /\ log[e].dom \notin SubDoms(pr.l)
                                   /\ log[e].arg \notin SubDoms(pr.l)
        /\ PrevRoot.tag # NextRoot.tag =>
              /\ doms[RootDom].children = << NextRoot.dom >>
              /\ Len(last.pairs) = 1

C9_Witness ==
    /\ Done
    /\ PrevRoot.tag # NextRoot.tag
    /\ Len(PrevRoot.body) = 2 /\ Len(NextRoot.body) = 2
    /\ PrevRoot.attributes # NextRoot.attributes
    /\ \E e \in DOMAIN log : log[e].op = "replaceWith" /\ log[e].dom = PrevRoot.dom

----------------------------------------------------------------------------
\* Reading the state of the Views

MountedIn(vw, vn, v) == vw[v].lastVNode # 0 /\ vn[vw[v].lastVNode].dom # 0

IsMounted(v) == MountedIn(views, vnodes, v)

Pending(op, v) == { i \in DOMAIN queue : queue[i].op = op /\ queue[i].view = v }

RECURSIVE FinalBody(_, _)
\* the node description the delegation chain of a View ends in, for the given states
FinalBody(vw, v) ==
    LET t == BodyOf(v, vw[v].state)
    IN  IF t.k = "view" THEN FinalBody(vw, t.vw) ELSE t

\* the committed node of the View is what its body yields for the given states
ReflectsIn(vw, vn, v) ==
    LET node == vn[vw[v].lastVNode]
        t == FinalBody(vw, v)
    IN  /\ node.tag = t.tag
        /\ node.attributes = t.attributes
        /\ Len(node.body) = Len(t.kids)

Reflects(v) == ReflectsIn(views, vnodes, v)

RECURSIVE OnlyVNodes(_)
OnlyVNodes(n) ==
    \A i \in DOMAIN vnodes[n].body :
        IsVNode(vnodes[n].body[i]) /\ OnlyVNodes(Kid(n, i))

----------------------------------------------------------------------------
\* the body of the panel changes the state while it is rendered
BodyMutates == Variant(views["panel"].state) \in { 6, 7 }

----------------------------------------------------------------------------
\* C1: a second mountTo on the same view with no unmount in between raises and
\* enqueues nothing, whether the first mount's unit of work has executed or
\* not; so at most one mount unit of work per view is accepted.
C1_SecondMountRejected ==
    /\ \A v \in Views : Cardinality(Pending("mountUnit", v)) <= 1
    /\ (last.op = "mountTo" /\ ~ last.raised) => ~ IsMounted(last.view)

\* C2: an accepted mountTo on an unmounted view renders and attaches nothing
\* before it returns (the view is still unmounted); when the queued unit of
\* work has executed, the view has been rendered with saveVNode = true, its
\* lastVNode is attached under the parent, the view is mounted and its
\* post-mount hook has fired (for a unit that ends without an error and a body
\* that leaves the state alone while it is rendered).
C2_MountDeferred ==
    [][ /\ (last'.op = "mountTo" /\ ~ last'.raised) =>
              /\ ~ IsMounted(last'.view)
              /\ UNCHANGED << vnodes, doms, views, bodyCalls, mountHooks, invalHooks >>
              /\ ~ MountedIn(views', vnodes', last'.view)
              /\ queue' = Append(queue, Unit("mountUnit", last'.view, RootDom, 0))
        /\ (last'.op = "mountUnit" /\ ~ last'.raised /\ ~ BodyMutates) =>
              LET v == last'.view
              IN  /\ bodyCalls'[v] = bodyCalls[v] + 1
                  /\ views'[v].lastVNode \notin DOMAIN vnodes
                  /\ views'[v].lastVNode \in DOMAIN vnodes'
                  /\ vnodes'[views'[v].lastVNode].dom
                        \in Range(doms'[Head(queue).parent].children)
                  /\ MountedIn(views', vnodes', v)
                  /\ mountHooks'[v] = mountHooks[v] + 1
      ]_vars

C2_Witness ==
    /\ last.op = "mountUnit" /\ ~ last.raised
    /\ IsMounted(last.view)
    /\ mountHooks[last.view] = 1
    /\ doms[RootDom].children = << vnodes[views[last.view].lastVNode].dom >>

\* C3: unmount on a view that is not mounted (never mounted, or its mount only
\* queued) raises at once, enqueues nothing and leaves lastVNode and the live
\* output as they were.
C3_UnmountGuard ==
    [][ (last'.op = "unmount" /\ ~ IsMounted(last'.view)) =>
            /\ last'.raised
            /\ UNCHANGED << queue, vnodes, doms, views >>
      ]_vars

C3_Witness ==
    /\ last.op = "unmount" /\ last.raised
    /\ ~ IsMounted(last.view)
    /\ Pending("mountUnit", last.view) # {}

\* C4: on a mounted view in Scheduled mode every invalidate() or set() call
\* appends its own unit of work and performs no pass before it returns; the
\* units run in call order, and each one that runs on the mounted view performs
\* exactly one render+reconcile pass, which renders the state current at that
\* moment (for a body that leaves the state alone while it is rendered).
C4_ScheduledPasses ==
    [][ /\ (last'.op \in { "invalidate", "set" } /\ IsMounted(last'.view)
               /\ ~ views[last'.view].force) =>
              /\ queue' = Append(queue, Unit("invalidateUnit", last'.view, 0,
                                             views'[last'.view].state))
              /\ UNCHANGED << passes, bodyCalls, vnodes, doms, invalHooks >>
              /\ views'[last'.view].lastVNode = views[last'.view].lastVNode
        /\ (last'.op = "invalidateUnit" /\ IsMounted(last'.view) /\ ~ BodyMutates) =>
              /\ Head(queue) = Unit("invalidateUnit", last'.view, 0, last'.snap)
              /\ queue' = Tail(queue)
              /\ passes'[last'.view] = passes[last'.view] + 1
              /\ bodyCalls'[last'.view] = bodyCalls[last'.view] + 1
              /\ views'[last'.view].state = views[last'.view].state
              /\ ~ last'.raised => ReflectsIn(views', vnodes', last'.view)
      ]_vars

C4_Witness ==
    /\ last.op = "invalidateUnit" /\ ~ last.raised
    /\ passes[last.view] = 1
    /\ last.snap # views[last.view].state
    /\ Pending("invalidateUnit", last.view) # {}
    /\ Reflects(last.view)

\* C10: the tree returned by renderToVNode holds no View at any depth: every
\* entry of every body list is a VNode.
C10_NoViewInRenderedTree ==
    \A v \in Views : views[v].lastVNode # 0 => OnlyVNodes(views[v].lastVNode)

----------------------------------------------------------------------------
\* Reading a render pass

\* the operation renders the View: the units of work and toString always do,
\* forceInvalidate and a state change in Forced mode when the View is mounted
Renders(op, v) ==
    \/ op \in { "mountUnit", "toString" }
    \/ op \in { "invalidateUnit", "forceInvalidate" } /\ IsMounted(v)
    \/ op = "set" /\ IsMounted(v) /\ views[v].force

LastVNodes(vw) == [ v \in Views |-> vw[v].lastVNode ]

RECURSIVE OnlyObjects(_)
\* every body entry of the tree is a View or a VNode
OnlyObjects(n) ==
    \A i \in DOMAIN vnodes[n].body :
        /\ IsObject(vnodes[n].body[i])
        /\ IsVNode(vnodes[n].body[i]) => OnlyObjects(Kid(n, i))

----------------------------------------------------------------------------
\* C11: a render fails whenever some body entry, at any depth, is neither a View
\* nor a VNode, so no tree that a render returned and a View kept holds such an
\* entry.
C11_InvalidEntryRaises ==
    \A v \in Views : views[v].lastVNode # 0 => OnlyObjects(views[v].lastVNode)

\* C12: when the delegation chain of the rendered View ends in a value that is
\* not null and not a VNode, the render raises and returns no node: nothing is
\* allocated, no View keeps a node and the live output is as it was.
C12_NonNodeBodyRaises ==
    [][ (Renders(last'.op, last'.view) /\ FinalBody(views', last'.view).k = "bad") =>
            /\ last'.raised
            /\ LastVNodes(views') = LastVNodes(views)
            /\ UNCHANGED << vnodes, doms >>
      ]_vars

C12_Witness ==
    /\ last.op \in { "toString", "invalidateUnit" }
    /\ last.raised
    /\ IsMounted(last.view)
    /\ last.view = "wrapper"
    /\ FinalBody(views, last.view).k = "bad"

\* C13: during a render with ignoreStateChange, as toString() makes, nothing the
\* body does through state.set or state.dispatch takes effect: no state changes,
\* no unit of work is queued and no render+reconcile pass runs; when the render
\* is over state.set is the original function again.
C13_StateChangeIgnored ==
    [][ last'.op = "toString" =>
            /\ \A v \in Views : views'[v].state = views[v].state
            /\ \A v \in Views : ~ views'[v].quiet
            /\ UNCHANGED << queue, passes, invalHooks >>
      ]_vars

\* C14: no two different VNodes that are the lastVNode of some View hold the
\* same live node.
C14_OneBindingPerLiveNode ==
    \A v, w \in Views :
        (IsMounted(v) /\ IsMounted(w) /\ views[v].lastVNode # views[w].lastVNode)
            => vnodes[views[v].lastVNode].dom # vnodes[views[w].lastVNode].dom

\* C15: invalidate() on a mounted view follows the invalidation mode: in
\* Scheduled mode it queues one unit and leaves lastVNode and the live output
\* alone, in Forced mode it queues nothing and has performed the pass itself
\* when it returns.
C15_InvalidateHonoursMode ==
    [][ (last'.op = "invalidate" /\ IsMounted(last'.view) /\ ~ BodyMutates) =>
            IF views[last'.view].force
            THEN /\ queue' = queue
                 /\ passes'[last'.view] = passes[last'.view] + 1
            ELSE /\ queue' = Append(queue, Unit("invalidateUnit", last'.view, 0,
                                               views[last'.view].state))
                 /\ LastVNodes(views') = LastVNodes(views)
                 /\ UNCHANGED << doms, passes >>
      ]_vars

\* C16: on a view that is not mounted invalidate() and forceInvalidate() do
\* nothing: no error, no unit of work, no getBody, no reconciliation, no hook,
\* and lastVNode and the state are as they were.
C16_NoOpWhenUnmounted ==
    [][ (last'.op \in { "invalidate", "forceInvalidate" } /\ ~ IsMounted(last'.view)) =>
            /\ ~ last'.raised
            /\ last'.pairs = << >>
            /\ UNCHANGED << queue, vnodes, doms, views, bodyCalls, passes, mountHooks,
                            invalHooks >>
      ]_vars

C16_Witness ==
    /\ last.op \in { "invalidate", "forceInvalidate" }
    /\ ~ last.raised
    /\ ~ IsMounted(last.view)
    /\ views[last.view].lastVNode # 0
    /\ passes[last.view] = 0

\* the render of the View fails for the given states: its chain ends in a value
\* that is no node, or a body entry of the node it ends in is no View and no VNode
RenderFails(vw, v) ==
    \/ FinalBody(vw, v).k = "bad"
    \/ \E i \in DOMAIN FinalBody(vw, v).kids : FinalBody(vw, v).kids[i].k = "bad"

\* C17: when the render inside forceInvalidate fails, no View has another
\* lastVNode than before the pass and the live output is as it was.
C17_FailedRenderCommitsNothing ==
    [][ (last'.op \in { "invalidateUnit", "forceInvalidate" } /\ IsMounted(last'.view)
            /\ RenderFails(views, last'.view)) =>
            /\ last'.raised
            /\ LastVNodes(views') = LastVNodes(views)
            /\ UNCHANGED doms
      ]_vars

\* C18: a reconciliation started by an invalidation pass, from the committed
\* tree of a mounted View to the tree its render returned, never raises.
C18_ReconcileNeverRaises ==
    (last.op \in { "invalidateUnit", "forceInvalidate", "set", "mountUnit" }
        /\ last.pairs # << >>) => ~ last.raised

\* C20: preferForceInvalidation() returns normally and leaves the view in Forced
\* mode, preferScheduledInvalidation() returns normally and leaves it in
\* Scheduled mode.
C20_ModeSwitches ==
    [][ /\ last'.op = "preferForceInvalidation" =>
              ~ last'.raised /\ views'[last'.view].force
        /\ last'.op = "preferScheduledInvalidation" =>
              ~ last'.raised /\ ~ views'[last'.view].force
      ]_vars

----------------------------------------------------------------------------
\* the previous child has a key that some next child carries
PrevMatched(j) ==
    /\ Truthy(vnodes[Kid(rPrev, j)].key)
    /\ \E i \in DOMAIN NextRoot.body : vnodes[Kid(rNext, i)].key = vnodes[Kid(rPrev, j)].key

\* the next child has a key that some previous child carries
NextMatched(i) ==
    /\ Truthy(vnodes[Kid(rNext, i)].key)
    /\ \E j \in DOMAIN PrevRoot.body : vnodes[Kid(rPrev, j)].key = vnodes[Kid(rNext, i)].key

\* the next children built afresh by the pass that originate from the View
FreshFrom(v) ==
    { i \in DOMAIN NextRoot.body : ~ NextMatched(i) /\ vnodes[Kid(rNext, i)].view = v }

\* C19: in the unequal-child-count regime every previous child without a key,
\* or with a key no next child carries, is detached from the live parent; every
\* next child without a key, or with a key no previous child carries, gets a
\* fresh live node under the live parent and its View is told once that it was
\* mounted; and only children with equal keys are reconciled with one another.
C19_UnkeyedRebuilt ==
    (Done /\ UnequalRegime) =>
        /\ \A j \in DOMAIN PrevRoot.body :
              ~ PrevMatched(j) =>
                  /\ ChildDom(rPrev, j) \notin Range(doms[PrevRoot.dom].children)
                  /\ doms[ChildDom(rPrev, j)].parent = 0
        /\ \A i \in DOMAIN NextRoot.body :
              ~ NextMatched(i) =>
                  /\ ChildDom(rNext, i) > rDoms
                  /\ ChildDom(rNext, i) \in Range(doms[PrevRoot.dom].children)
        /\ \A v \in Views : mountHooks[v] = Cardinality(FreshFrom(v))
        /\ \A k \in DOMAIN last.pairs :
              \/ last.pairs[k] = [ l |-> rPrev, n |-> rNext ]
              \/ /\ Truthy(vnodes[last.pairs[k].l].key)
                 /\ vnodes[last.pairs[k].l].key = vnodes[last.pairs[k].n].key

C19_Witness ==
    /\ Done /\ UnequalRegime
    /\ \E j \in DOMAIN PrevRoot.body : ~ Truthy(vnodes[Kid(rPrev, j)].key)
    /\ \E i \in DOMAIN NextRoot.body : ~ Truthy(vnodes[Kid(rNext, i)].key)
    /\ \E i \in DOMAIN NextRoot.body : NextMatched(i)
    /\ \E j \in DOMAIN PrevRoot.body :
          Truthy(vnodes[Kid(rPrev, j)].key) /\ ~ PrevMatched(j)
    /\ mountHooks["panel"] = 1

\* ---------------------------------------------------------------------------
\* Post-invalidation hooks of one forceInvalidate() pass

\* the call just made was one completed forceInvalidate() pass of View v on a
\* mounted View whose body leaves the state alone
OnePass(v) ==
    /\ last'.op = "forceInvalidate"
    /\ last'.view = v
    /\ ~ last'.raised
    /\ MountedIn(views, vnodes, v)
    /\ ~ BodyMutates
    /\ passes'[v] = passes[v] + 1

\* C23: every forceInvalidate() pass on a mounted View fires that View's
\* post-invalidation hook exactly once, on the patch path and on the rebuild
\* path, whether or not the View is the one recorded on the rendered node.
C23_HookOncePerPass ==
    [][ \A v \in Views : OnePass(v) => invalHooks'[v] = invalHooks[v] + 1 ]_vars

\* ---------------------------------------------------------------------------
\* Renders that are not to be saved

\* which Views are mounted
MountedViews(vw, vn) == { v \in Views : MountedIn(vw, vn, v) }

\* C24: a render with saveVNode = false changes the lastVNode of no View:
\* toString() leaves every View's lastVNode and mounted status as they were,
\* and a forceInvalidate() pass changes the lastVNode of the invalidated View
\* only (the commit of line 230).
C24_UnsavedRenderKeepsLastVNode ==
    [][ /\ last'.op = "toString" =>
              /\ LastVNodes(views') = LastVNodes(views)
              /\ MountedViews(views', vnodes') = MountedViews(views, vnodes)
        /\ (last'.op = "forceInvalidate" /\ ~ BodyMutates) =>
              \A v \in Views \ { last'.view } : views'[v].lastVNode = views[v].lastVNode
      ]_vars

\* ---------------------------------------------------------------------------
\* Detachment units

\* C26: at most one detachment unit of a View is pending: an unmount() issued
\* while an accepted one is still queued raises and queues nothing, and an
\* invalidation unit that runs when the View is no longer mounted performs no
\* render and no reconciliation.
C26_OneDetachmentPending ==
    [][ /\ \A v \in Views : Cardinality(Pending("unmountUnit", v)) <= 1
        /\ (last'.op = "unmount" /\ Pending("unmountUnit", last'.view) # {}) =>
              (last'.raised /\ queue' = queue)
        /\ (last'.op = "invalidateUnit" /\ ~ IsMounted(last'.view)) =>
              /\ log' = << >>
              /\ UNCHANGED << vnodes, doms, views, passes, bodyCalls, invalHooks >>
      ]_vars

\* ---------------------------------------------------------------------------
\* Keys made by setKey

\* C25: in the unequal-child-count regime a previous child and a next child
\* that carry the same key made by setKey, the number 0 and the empty string
\* included, and that can be patched into one another (same tag, no text node)
\* are reconciled as a pair and the next child takes over the live node, which
\* stays under the live parent.
C25_EveryKeyCorrelates ==
    (Done /\ UnequalRegime) =>
        \A j \in DOMAIN PrevRoot.body, i \in DOMAIN NextRoot.body :
            (/\ vnodes[Kid(rPrev, j)].key \in SetKeyValues
             /\ vnodes[Kid(rPrev, j)].key = vnodes[Kid(rNext, i)].key
             /\ Patched(Kid(rPrev, j), Kid(rNext, i))) =>
                /\ [ l |-> Kid(rPrev, j), n |-> Kid(rNext, i) ] \in Range(last.pairs)
                /\ ChildDom(rNext, i) = ChildDom(rPrev, j)
                /\ ChildDom(rNext, i) \in Range(doms[PrevRoot.dom].children)

\* ---------------------------------------------------------------------------
\* Reading the properties of the View a

StylesOf(ob, hs, h) == ob[hs[h].styles]
AttributesOf(ob, hs, h) == ob[hs[h].attributes]

\* every handler the View src holds is held by the View dst for the same event
HandlersCarried(src, dst) ==
    \A e \in DOMAIN src.events :
        e \in DOMAIN dst.events /\ Range(src.events[e]) \subseteq Range(dst.events[e])

\* C21: after a.applyViewProperties(b) the styles of a are its previous styles
\* overlaid with those of b, the attributes of a are its previous attributes
\* overlaid with those of b, styles and attributes are two separate maps with
\* no attribute name among the styles and no style name among the attributes,
\* and every handler registered on b is registered on a for the same event.
C21_PropertiesOverlaid ==
    [][ last'.op = "applyViewProperties" =>
            /\ StylesOf(objects', holders', "a")
                  = Overlay(StylesOf(objects, holders, "a"), StylesOf(objects, holders, "b"))
            /\ AttributesOf(objects', holders', "a")
                  = Overlay(AttributesOf(objects, holders, "a"),
                            AttributesOf(objects, holders, "b"))
            /\ holders'["a"].styles # holders'["a"].attributes
            /\ DOMAIN StylesOf(objects', holders', "a") \cap AttrNames = {}
            /\ DOMAIN AttributesOf(objects', holders', "a") \cap StyleKeys = {}
            /\ HandlersCarried(holders["b"], holders'["a"])
      ]_vars

\* ---------------------------------------------------------------------------
\* Reading the text of a font

CssWeights == { "100", "200", "300", "400", "500", "600", "700", "800", "900" }

\* C22: for a font whose weight is a member of the Weight enum, the text of
\* font.toString() holds a font-weight from "100" to "900" and nowhere the
\* text "undefined".
C22_WeightIsDefined ==
    (last.op = "fontToString" /\ font.weight \in Weight) =>
        /\ \E i \in DOMAIN fontText : fontText[i] \in CssWeights
        /\ Undefined \notin Range(fontText)

====
